---- MODULE Spec2Model ----
(***************************************************************************)
(* Model of GeometryCWXMLConverter (src/ydr/import_cwxml/geometry.py):     *)
(* the decoding of a vertex buffer into VertexComponents, the reshaping of *)
(* the index buffer into faces, the cached vertex_components property and  *)
(* the creation of vertex groups and weights on the geometry object.       *)
(*                                                                         *)
(* Conventions.                                                            *)
(*  - A vertex (a namedtuple) is a sequence of [name, value] fields in the *)
(*    declared order; hasattr and _asdict().items() read that sequence.    *)
(*  - A dict is [keys |-> the keys in insertion order, vals |-> the values *)
(*    in the same order].                                                  *)
(*  - None is the record [none |-> TRUE].                                  *)
(*  - A call ends as [raised |-> "none", value |-> v] or as                *)
(*    [raised |-> <exception class name>].                                 *)
(*  - A float weight b / 255 is the exact fraction [num |-> b, den |-> 255]*)
(*    (floating-point rounding is not modelled).                           *)
(*  - Python indices are kept 0-based in the data (vertex_index, faces);   *)
(*    TLA+ sequences are 1-based, so element i of a list is seq[i + 1].    *)
(***************************************************************************)
EXTENDS Integers, Sequences, FiniteSets, TLC

VARIABLES
    vertices,            \* self.cwxml.vertex_buffer.get_data()
    indices,             \* self.cwxml.index_buffer.data
    bone_ids,            \* self.cwxml.bone_ids
    _vertex_components,  \* self._vertex_components
    mesh,                \* self.mesh
    bpy_object,          \* self.bpy_object
    bones,               \* the bones argument of the last create_bpy_object
    raised,              \* exception that left the last call ("none" if it returned)
    read_log,            \* outcome of every read of the vertex_components property
    decodes,             \* number of get_data + get_vertex_components runs
    sets,                \* number of assignments through the property setter
    builds               \* number of create_bpy_object calls

vars == <<vertices, indices, bone_ids, _vertex_components, mesh, bpy_object,
          bones, raised, read_log, decodes, sets, builds>>

----------------------------------------------------------------------------
(* Bounds of the explored inputs and call sequences. *)

MaxVerts == 2
MaxIndices == 4
MaxBone == 1
MaxSlots == 5
MaxBones == 2
MaxBoneIds == 2
MaxReads == 2
MaxSets == 1
MaxBuilds == 1

----------------------------------------------------------------------------
(* Python values. *)

None == [none |-> TRUE]

Returned(v) == [raised |-> "none", value |-> v]

Raise(kind) == [raised |-> kind]

EmptyDict == [keys |-> <<>>, vals |-> <<>>]

\* key in d
HasKey(d, key) == \E k \in 1..Len(d.keys) : d.keys[k] = key

\* d[key] = value; a new key goes last in the iteration order
DictSet(d, key, value) ==
    IF HasKey(d, key)
    THEN [d EXCEPT !.vals = [k \in DOMAIN d.vals |->
                                IF d.keys[k] = key THEN value ELSE d.vals[k]]]
    ELSE [keys |-> Append(d.keys, key), vals |-> Append(d.vals, value)]

\* d[key]
DictGet(d, key) == d.vals[CHOOSE k \in 1..Len(d.keys) : d.keys[k] = key]

\* sub in s, for str
IsSubstring(sub, s) ==
    \E k \in 1..(Len(s) - Len(sub) + 1) : SubSeq(s, k, k + Len(sub) - 1) = sub

\* hasattr(vertex, name)
HasAttr(vertex, name) == \E k \in 1..Len(vertex) : vertex[k].name = name

\* vertex.<name>
GetAttr(vertex, name) ==
    vertex[CHOOSE k \in 1..Len(vertex) : vertex[k].name = name].value

\* mathutils.Vector(t) of a 3-sequence
Vector(t) == [x |-> t[1], y |-> t[2], z |-> t[3]]

\* tuple(value)
Tuple(value) == [k \in 1..Len(value) |-> value[k]]

\* b / 255
Div255(b) == [num |-> b, den |-> 255]

----------------------------------------------------------------------------
(* get_vertex_components *)

\* weight = vertex.blendweights[i] / 255
SlotWeight(vertex, i) == Div255(GetAttr(vertex, "blendweights")[i + 1])

\* Variant of BlendSlots with the zero-weight filter, `if weight <= 0.0: continue`.
RECURSIVE BlendSlotsSkipZero(_, _, _, _)
BlendSlotsSkipZero(vertex_groups, vertex_index, vertex, i) ==
    IF i >= 4 THEN Returned(vertex_groups)
    ELSE IF i >= Len(GetAttr(vertex, "blendweights")) THEN Raise("IndexError")
    ELSE IF GetAttr(vertex, "blendweights")[i + 1] <= 0
    THEN BlendSlotsSkipZero(vertex_groups, vertex_index, vertex, i + 1)
    ELSE IF ~HasAttr(vertex, "blendindices") THEN Raise("AttributeError")
    ELSE IF i >= Len(GetAttr(vertex, "blendindices")) THEN Raise("IndexError")
    ELSE LET weight == SlotWeight(vertex, i)
             bone_index == GetAttr(vertex, "blendindices")[i + 1]
             created == IF HasKey(vertex_groups, bone_index)
                        THEN vertex_groups
                        ELSE DictSet(vertex_groups, bone_index, <<>>)
             appended == DictSet(created, bone_index,
                                 Append(DictGet(created, bone_index),
                                        <<vertex_index, weight>>))
         IN BlendSlotsSkipZero(appended, vertex_index, vertex, i + 1)

\* Variant of BlendSlots that loops over the slots blendweights holds,
\* `for i in range(len(vertex.blendweights))`.
RECURSIVE BlendSlotsOverWeights(_, _, _, _)
BlendSlotsOverWeights(vertex_groups, vertex_index, vertex, i) ==
    IF i >= Len(GetAttr(vertex, "blendweights")) THEN Returned(vertex_groups)
    ELSE IF ~HasAttr(vertex, "blendindices") THEN Raise("AttributeError")
    ELSE IF i >= Len(GetAttr(vertex, "blendindices")) THEN Raise("IndexError")
    ELSE LET weight == SlotWeight(vertex, i)
             bone_index == GetAttr(vertex, "blendindices")[i + 1]
             created == IF HasKey(vertex_groups, bone_index)
                        THEN vertex_groups
                        ELSE DictSet(vertex_groups, bone_index, <<>>)
             appended == DictSet(created, bone_index,
                                 Append(DictGet(created, bone_index),
                                        <<vertex_index, weight>>))
         IN BlendSlotsOverWeights(appended, vertex_index, vertex, i + 1)

\* The body of `for i in range(0, 4)` from slot i on. A subscript past the end
\* of a list raises IndexError, a missing attribute raises AttributeError.
RECURSIVE BlendSlots(_, _, _, _)
BlendSlots(vertex_groups, vertex_index, vertex, i) ==
    IF i >= 4 THEN Returned(vertex_groups)
    ELSE IF i >= Len(GetAttr(vertex, "blendweights")) THEN Raise("IndexError")
    ELSE IF ~HasAttr(vertex, "blendindices") THEN Raise("AttributeError")
    ELSE IF i >= Len(GetAttr(vertex, "blendindices")) THEN Raise("IndexError")
    ELSE LET weight == SlotWeight(vertex, i)
             bone_index == GetAttr(vertex, "blendindices")[i + 1]
             created == IF HasKey(vertex_groups, bone_index)
                        THEN vertex_groups
                        ELSE DictSet(vertex_groups, bone_index, <<>>)
             appended == DictSet(created, bone_index,
                                 Append(DictGet(created, bone_index),
                                        <<vertex_index, weight>>))
         IN BlendSlots(appended, vertex_index, vertex, i + 1)

\* if "texcoord" in key
IsUvKey(key) == IsSubstring("texcoord", key)

\* Variant of IsColorKey that takes either spelling.
IsColorKeyEitherSpelling(key) == IsSubstring("colour", key) \/ IsSubstring("color", key)

\* if "colour" in key
IsColorKey(key) == IsSubstring("colour", key)

\* Variant of Collect with the append inside the first-sight branch.
CollectOnFirstSight(map, key, value) ==
    IF HasKey(map, key) THEN map ELSE DictSet(map, key, <<Tuple(value)>>)

\* map[key].append(tuple(value)), the list created on first sight
Collect(map, key, value) ==
    LET created == IF HasKey(map, key) THEN map ELSE DictSet(map, key, <<>>)
    IN DictSet(created, key, Append(DictGet(created, key), Tuple(value)))

\* `for key, value in vertex._asdict().items()` from field k on
RECURSIVE FieldLoop(_, _, _)
FieldLoop(maps, vertex, k) ==
    IF k > Len(vertex) THEN maps
    ELSE LET key == vertex[k].name
             value == vertex[k].value
             uv == IF IsUvKey(key) THEN Collect(maps.uv_map, key, value)
                   ELSE maps.uv_map
             color == IF IsColorKey(key) THEN Collect(maps.color_map, key, value)
                      ELSE maps.color_map
         IN FieldLoop([uv_map |-> uv, color_map |-> color], vertex, k + 1)

\* Variant of VertexStep that appends a normal for every vertex, a zero vector
\* when the vertex has none.
VertexStepNormalAlways(acc, vertex_index, vertex) ==
    LET positions == Append(acc.positions, GetAttr(vertex, "position"))
        normals == IF HasAttr(vertex, "normal")
                   THEN Append(acc.normals, Vector(GetAttr(vertex, "normal")))
                   ELSE Append(acc.normals, Vector(<<0, 0, 0>>))
        groups == IF HasAttr(vertex, "blendweights")
                  THEN BlendSlots(acc.vertex_groups, vertex_index, vertex, 0)
                  ELSE Returned(acc.vertex_groups)
        maps == FieldLoop([uv_map |-> acc.uv_map, color_map |-> acc.color_map],
                          vertex, 1)
    IN IF groups.raised # "none" THEN Raise(groups.raised)
       ELSE Returned([positions |-> positions,
                      normals |-> normals,
                      uv_map |-> maps.uv_map,
                      color_map |-> maps.color_map,
                      vertex_groups |-> groups.value])

\* One iteration of `for vertex_index, vertex in enumerate(vertices)`.
VertexStep(acc, vertex_index, vertex) ==
    LET positions == Append(acc.positions, GetAttr(vertex, "position"))
        normals == IF HasAttr(vertex, "normal")
                   THEN Append(acc.normals, Vector(GetAttr(vertex, "normal")))
                   ELSE acc.normals
        groups == IF HasAttr(vertex, "blendweights")
                  THEN BlendSlots(acc.vertex_groups, vertex_index, vertex, 0)
                  ELSE Returned(acc.vertex_groups)
        maps == FieldLoop([uv_map |-> acc.uv_map, color_map |-> acc.color_map],
                          vertex, 1)
    IN IF groups.raised # "none" THEN Raise(groups.raised)
       ELSE Returned([positions |-> positions,
                      normals |-> normals,
                      uv_map |-> maps.uv_map,
                      color_map |-> maps.color_map,
                      vertex_groups |-> groups.value])

RECURSIVE VertexLoop(_, _, _)
VertexLoop(acc, vs, vertex_index) ==
    IF vertex_index >= Len(vs) THEN Returned(acc)
    ELSE LET step == VertexStep(acc, vertex_index, vs[vertex_index + 1])
         IN IF step.raised # "none" THEN step
            ELSE VertexLoop(step.value, vs, vertex_index + 1)

\* VertexComponents(positions, normals, uv_map, color_map, vertex_groups)
EmptyVertexComponents ==
    [positions |-> <<>>, normals |-> <<>>, uv_map |-> EmptyDict,
     color_map |-> EmptyDict, vertex_groups |-> EmptyDict]

GetVertexComponents(vs) == VertexLoop(EmptyVertexComponents, vs, 0)

----------------------------------------------------------------------------
(* The vertex_components property *)

\* Variant of the getter that never stores what it decoded.
vertex_components_uncached(cache, vs) ==
    IF cache = None
    THEN [cache |-> cache, result |-> GetVertexComponents(vs), decoded |-> 1]
    ELSE [cache |-> cache, result |-> Returned(cache), decoded |-> 0]

\* The getter: decode on a cache miss and keep the result; an exception leaves
\* self._vertex_components as it was. decoded counts the runs of
\* get_data + get_vertex_components.
vertex_components(cache, vs) ==
    IF cache = None
    THEN LET result == GetVertexComponents(vs)
         IN [cache |-> IF result.raised = "none" THEN result.value ELSE cache,
             result |-> result,
             decoded |-> 1]
    ELSE [cache |-> cache, result |-> Returned(cache), decoded |-> 0]

----------------------------------------------------------------------------
(* create_mesh and the layers *)

Min(a, b) == IF a <= b THEN a ELSE b

\* Variant of Faces that drops an incomplete last triple,
\* range(0, len(indices) - 2, 3).
FacesWholeTriples(idx) ==
    [k \in 1..(Len(idx) \div 3) |-> SubSeq(idx, 3 * (k - 1) + 1, 3 * k)]

\* Variant of Faces that slices one index short, indices[i:i + 2].
FacesShortSlice(idx) ==
    [k \in 1..((Len(idx) + 2) \div 3) |->
        SubSeq(idx, 3 * (k - 1) + 1, Min(3 * k - 1, Len(idx)))]

\* faces = [indices[i:i + 3] for i in range(0, len(indices), 3)]
Faces(idx) ==
    [k \in 1..((Len(idx) + 2) \div 3) |->
        SubSeq(idx, 3 * (k - 1) + 1, Min(3 * k, Len(idx)))]

\* bpy.data.meshes.new(name)
NewMesh ==
    [vertices |-> <<>>, faces |-> <<>>, normals |-> <<>>,
     uv_layers |-> <<>>, color_layers |-> <<>>]

\* for i, (name, coords) in enumerate(map.items()): create_*_layer(mesh, i, name, coords)
Layers(map) ==
    [k \in 1..Len(map.keys) |->
        [index |-> k - 1, name |-> map.keys[k], coords |-> map.vals[k]]]

----------------------------------------------------------------------------
(* create_vertex_groups and set_geometry_weights *)

\* f"EXTERNAL_BONE.{bone_index}"
ExternalBoneName(bone_index) == "EXTERNAL_BONE." \o ToString(bone_index)

\* Variant of BoneName that names every key out of range of the bone list
\* "EXTERNAL_BONE.<key>".
BoneNameExternalUnlessInRange(bone_index, bone_list, ids) ==
    IF Len(bone_list) > 0 /\ bone_index < Len(bone_list)
    THEN bone_list[bone_index + 1]
    ELSE ExternalBoneName(bone_index)

\* The name chosen for one key of vertex_groups.
BoneName(bone_index, bone_list, ids) ==
    IF Len(bone_list) > 0 /\ bone_index < Len(bone_list)
    THEN bone_list[bone_index + 1]
    ELSE IF Len(ids) > 0 /\ bone_index < Len(ids)
    THEN ExternalBoneName(bone_index)
    ELSE "UNKNOWN_BONE"

\* bpy_vertex_groups.new(name=bone_name): the new group goes last and is empty
NewGroup(groups, bone_name) ==
    Append(groups, [name |-> bone_name, weights |-> EmptyDict])

RECURSIVE CreateVertexGroupsFrom(_, _, _, _, _)
CreateVertexGroupsFrom(groups, keys, bone_list, ids, k) ==
    IF k > Len(keys) THEN groups
    ELSE CreateVertexGroupsFrom(
             NewGroup(groups, BoneName(keys[k], bone_list, ids)),
             keys, bone_list, ids, k + 1)

\* for bone_index in self.vertex_components.vertex_groups.keys(): ...
CreateVertexGroups(groups, vc, bone_list, ids) ==
    CreateVertexGroupsFrom(groups, vc.vertex_groups.keys, bone_list, ids, 1)

\* a + b for two weights
WeightSum(a, b) ==
    IF a.den = b.den THEN [num |-> a.num + b.num, den |-> a.den]
    ELSE [num |-> a.num * b.den + b.num * a.den, den |-> a.den * b.den]

\* Variant of GroupAdd in "REPLACE" mode.
GroupAddReplace(group, vertex_index, weight) ==
    [group EXCEPT !.weights = DictSet(group.weights, vertex_index, weight)]

\* vertex_group.add([vertex_index], weight, "ADD")
GroupAdd(group, vertex_index, weight) ==
    [group EXCEPT !.weights =
        IF HasKey(group.weights, vertex_index)
        THEN DictSet(group.weights, vertex_index,
                     WeightSum(DictGet(group.weights, vertex_index), weight))
        ELSE DictSet(group.weights, vertex_index, weight)]

\* for vertex_index, weight in vertex_group: self.bpy_object.vertex_groups[i].add(...)
RECURSIVE AddEntries(_, _, _, _)
AddEntries(groups, i, entries, e) ==
    IF e > Len(entries) THEN groups
    ELSE AddEntries(
             [groups EXCEPT ![i + 1] = GroupAdd(groups[i + 1], entries[e][1], entries[e][2])],
             i, entries, e + 1)

\* for i, vertex_group in enumerate(self.vertex_components.vertex_groups.values()): ...
RECURSIVE SetGeometryWeightsFrom(_, _, _)
SetGeometryWeightsFrom(groups, values, i) ==
    IF i >= Len(values) THEN groups
    ELSE SetGeometryWeightsFrom(AddEntries(groups, i, values[i + 1], 1), values, i + 1)

SetGeometryWeights(groups, vc) ==
    SetGeometryWeightsFrom(groups, vc.vertex_groups.vals, 0)

----------------------------------------------------------------------------
(* Operations *)

\* A read of the vertex_components property by a caller.
ReadVertexComponents ==
    /\ Len(read_log) < MaxReads
    /\ LET got == vertex_components(_vertex_components, vertices)
       IN /\ _vertex_components' = got.cache
          /\ raised' = got.result.raised
          /\ read_log' = Append(read_log, got.result)
          /\ decodes' = decodes + got.decoded
    /\ UNCHANGED <<vertices, indices, bone_ids, mesh, bpy_object, bones, sets, builds>>

\* An assignment to the vertex_components property.
SetVertexComponents(new_vertex_components) ==
    /\ sets < MaxSets
    /\ _vertex_components' = new_vertex_components
    /\ raised' = "none"
    /\ sets' = sets + 1
    /\ UNCHANGED <<vertices, indices, bone_ids, mesh, bpy_object, bones,
                   read_log, decodes, builds>>

\* create_bpy_object(name, bones, materials): create_mesh (with set_smooth_normals,
\* create_uv_layers and create_vertex_color_layers), create_sollumz_object,
\* create_vertex_groups and set_geometry_weights. Each step reads the
\* vertex_components property; the first read is the one that can raise, after
\* the mesh data-block was created and before the object exists. (Each read is
\* bound with \E over a singleton so that it is evaluated once.) create_material
\* and create_tinted_shader_graph act on materials only and are left out, as is
\* what the host does inside from_pydata and validate.
CreateBpyObject(bone_list) ==
    /\ builds < MaxBuilds
    /\ builds' = builds + 1
    /\ bones' = bone_list
    /\ \E r1 \in {vertex_components(_vertex_components, vertices)} :
       IF r1.result.raised # "none"
          THEN /\ mesh' = NewMesh
               /\ raised' = r1.result.raised
               /\ _vertex_components' = r1.cache
               /\ read_log' = Append(read_log, r1.result)
               /\ decodes' = decodes + r1.decoded
               /\ UNCHANGED bpy_object
          ELSE \E r2 \in {vertex_components(r1.cache, vertices)} :
               \E r3 \in {vertex_components(r2.cache, vertices)} :
               \E r4 \in {vertex_components(r3.cache, vertices)} :
               \E r5 \in {vertex_components(r4.cache, vertices)} :
               \E r6 \in {vertex_components(r5.cache, vertices)} :
               \E created \in {CreateVertexGroups(<<>>, r5.result.value, bone_list, bone_ids)} :
                  /\ mesh' = [vertices |-> r1.result.value.positions,
                              faces |-> Faces(indices),
                              normals |-> r2.result.value.normals,
                              uv_layers |-> Layers(r3.result.value.uv_map),
                              color_layers |-> Layers(r4.result.value.color_map)]
                  /\ bpy_object' = [vertex_groups |->
                                       SetGeometryWeights(created, r6.result.value)]
                  /\ raised' = "none"
                  /\ _vertex_components' = r6.cache
                  /\ read_log' = read_log \o <<r1.result, r2.result, r3.result,
                                               r4.result, r5.result, r6.result>>
                  /\ decodes' = decodes + r1.decoded + r2.decoded + r3.decoded
                                        + r4.decoded + r5.decoded + r6.decoded
    /\ UNCHANGED <<vertices, indices, bone_ids, sets>>

----------------------------------------------------------------------------
(* Inputs: the geometries the converter is constructed on. All vertices   *)
(* of one buffer share the layout of the buffer; the length of a blend     *)
(* array is whatever the file holds.                                       *)

Field(name, value) == [name |-> name, value |-> value]

Points == {<<0, 0, 0>>, <<1, 0, 0>>}

Normals == {<<0, 0, 1>>, <<0, 1, 0>>}

UVs == {<<0, 0>>, <<1, 0>>}

Colours == {<<255, 255, 255, 255>>, <<0, 0, 0, 255>>}

\* The values a field of the given name takes.
ValuesOf(name) ==
    CASE name = "position" -> Points
      [] name = "normal" -> Normals
      [] name \in {"texcoord0", "texcoord1"} -> UVs
      [] OTHER -> Colours

\* All vertices of a layout: one value per field, fields in layout order.
RECURSIVE VerticesOf(_, _)
VerticesOf(layout, k) ==
    IF k = 0 THEN {<<>>}
    ELSE {Append(v, Field(layout[k], x)) :
             v \in VerticesOf(layout, k - 1), x \in ValuesOf(layout[k])}

\* All buffers of at most MaxVerts vertices of a layout.
BuffersOf(layout) ==
    UNION {[1..n -> VerticesOf(layout, Len(layout))] : n \in 0..MaxVerts}

AttributeLayouts ==
    {<<"position">>,
     <<"position", "normal">>,
     <<"position", "texcoord0">>,
     <<"position", "normal", "texcoord0", "colour0">>,
     <<"position", "texcoord0", "texcoord1">>,
     <<"position", "colour0", "color0">>}

\* Blend arrays: the first two slots vary, the others are zero.
WeightArrays == {<<128, 127, 0, 0>>, <<255, 255, 0, 0>>}

IndexArrays == {<<i, j, 0, 0>> : i, j \in 0..MaxBone}

SkinnedVertices ==
    {<<Field("position", <<0, 0, 0>>), Field("blendweights", w),
       Field("blendindices", b)>> : w \in WeightArrays, b \in IndexArrays}

SkinnedBuffers == UNION {[1..n -> SkinnedVertices] : n \in 0..MaxVerts}

\* A blend array of the given length: 255 or bone 1 in slot 0, then zeros.
WeightsOfLen(n) == [k \in 1..n |-> IF k = 1 THEN 255 ELSE 0]

IndicesOfLen(n) == [k \in 1..n |-> IF k = 1 THEN 1 ELSE 0]

\* The lengths of a blend array: empty, or 3 to MaxSlots entries.
SlotCounts == {0} \cup 3..MaxSlots

\* Vertices whose blend arrays have any of these lengths, or whose layout
\* declares only one of the two arrays.
OddVertices ==
    {<<Field("position", <<0, 0, 0>>), Field("blendweights", WeightsOfLen(wn)),
       Field("blendindices", IndicesOfLen(bn))>> : wn, bn \in SlotCounts}

WeightsOnlyVertices ==
    {<<Field("position", <<0, 0, 0>>), Field("blendweights", WeightsOfLen(wn))>> :
        wn \in SlotCounts}

IndicesOnlyVertices ==
    {<<Field("position", <<0, 0, 0>>), Field("blendindices", IndicesOfLen(bn))>> :
        bn \in SlotCounts}

OddBuffers ==
    UNION {[1..n -> OddVertices] \cup [1..n -> WeightsOnlyVertices]
             \cup [1..n -> IndicesOnlyVertices] : n \in 1..MaxVerts}

\* The two vertices of a small skinned geometry.
SampleSkinned ==
    <<<<Field("position", <<0, 0, 0>>), Field("normal", <<0, 0, 1>>),
        Field("blendweights", <<255, 0, 0, 0>>), Field("blendindices", <<2, 0, 0, 0>>),
        Field("texcoord0", <<0, 0>>)>>,
      <<Field("position", <<1, 0, 0>>), Field("normal", <<0, 0, 1>>),
        Field("blendweights", <<128, 127, 0, 0>>), Field("blendindices", <<2, 3, 0, 0>>),
        Field("texcoord0", <<1, 0>>)>>>>

\* A vertex that names each of two bones in two slots.
SampleRepeated ==
    <<<<Field("position", <<0, 0, 0>>), Field("blendweights", <<128, 127, 0, 0>>),
        Field("blendindices", <<5, 5, 7, 7>>)>>>>

\* MaxVerts vertices with a position only.
SamplePlain ==
    [k \in 1..MaxVerts |-> <<Field("position", <<k - 1, 0, 0>>)>>]

\* A buffer whose second vertex has a short blendweights array.
SampleOdd ==
    <<SampleSkinned[1],
      <<Field("position", <<1, 0, 0>>), Field("blendweights", <<255, 0, 0>>),
        Field("blendindices", <<2, 0, 0, 0>>)>>>>

IndexBuffers ==
    UNION {[1..n -> 0..(MaxVerts - 1)] : n \in 0..MaxIndices}

\* cwxml.bone_ids of the given length
BoneIdsOfLen(n) == [k \in 1..n |-> 1000 + k]

\* The names of a skeleton of the given number of bones.
BonesOfLen(n) == [k \in 1..n |-> "Bone" \o ToString(k - 1)]

BoneLists == {BonesOfLen(n) : n \in 0..MaxBones}

\* __init__: nothing decoded, no mesh, no object.
Constructed ==
    /\ _vertex_components = None
    /\ mesh = None
    /\ bpy_object = None
    /\ bones = <<>>
    /\ raised = "none"
    /\ read_log = <<>>
    /\ decodes = 0
    /\ sets = 0
    /\ builds = 0

----------------------------------------------------------------------------
(* Specifications *)

\* Decoding: any buffer of the layouts above, read through the property.
InitDecode ==
    /\ vertices \in (UNION {BuffersOf(layout) : layout \in AttributeLayouts})
                       \cup SkinnedBuffers \cup OddBuffers
    /\ indices = <<>>
    /\ bone_ids = <<>>
    /\ Constructed

NextDecode == ReadVertexComponents

SpecDecode == InitDecode /\ [][NextDecode]_vars

\* Building the object: any index buffer over a plain buffer, or any skinned
\* buffer, or any bone_ids over the samples; any skeleton.
InitBuild ==
    /\ \/ /\ vertices = SamplePlain
          /\ indices \in IndexBuffers
          /\ bone_ids = <<>>
       \/ /\ vertices \in SkinnedBuffers
          /\ indices = <<>>
          /\ bone_ids = BoneIdsOfLen(1)
       \/ /\ vertices \in {SampleSkinned, SampleRepeated, SampleOdd}
          /\ indices = <<0, 1, 0>>
          /\ bone_ids \in {BoneIdsOfLen(n) : n \in 0..MaxBoneIds}
    /\ Constructed

NextBuild == \E bone_list \in BoneLists : CreateBpyObject(bone_list)

SpecBuild == InitBuild /\ [][NextBuild]_vars

\* The life of one converter: reads, assignments and builds in any order.
Init ==
    /\ vertices \in {SamplePlain, SampleSkinned, SampleOdd}
    /\ indices \in {<<0, 1, 0>>, <<0, 1, 0, 1>>}
    /\ bone_ids \in {<<>>, BoneIdsOfLen(1)}
    /\ Constructed

Next ==
    \/ ReadVertexComponents
    \/ \E new \in {None, EmptyVertexComponents} : SetVertexComponents(new)
    \/ \E bone_list \in BoneLists : CreateBpyObject(bone_list)

Spec == Init /\ [][Next]_vars

----------------------------------------------------------------------------
(* Properties *)

Last(seq) == seq[Len(seq)]

\* create_bpy_object has run and returned.
Built == builds > 0 /\ raised = "none"

\* The property has been read and the read returned.
Decoded == Len(read_log) > 0 /\ Last(read_log).raised = "none"

\* The field names of the vertex records.
FieldNames ==
    UNION {{vertices[v][k].name : k \in 1..Len(vertices[v])} : v \in 1..Len(vertices)}

\* C1 as stated: an index buffer whose length is not a multiple of 3 makes
\* create_mesh signal MalformedBuffer, and no face of fewer than 3 indices is
\* handed to mesh construction.
C1_PartialTripleSignalsMalformedBuffer ==
    (builds > 0 /\ Len(indices) % 3 # 0) =>
        /\ raised = "MalformedBuffer"
        /\ \A k \in 1..Len(mesh.faces) : Len(mesh.faces[k]) = 3

\* C1 as amended: an index buffer of length n, n not a multiple of 3, signals
\* no error of its own (an exception, if any, is the one of the vertex decoding);
\* the faces handed to mesh construction are the n \div 3 full triples in order
\* followed by one trailing face holding the last n % 3 indices.
C1_PartialTripleKeptAsShortFace ==
    (builds > 0 /\ Len(indices) % 3 # 0) =>
        /\ raised = Last(read_log).raised
        /\ raised = "none" =>
            LET n == Len(indices)
                full == n \div 3
            IN /\ Len(mesh.faces) = full + 1
               /\ \A k \in 1..full :
                    mesh.faces[k] = <<indices[3 * k - 2], indices[3 * k - 1], indices[3 * k]>>
               /\ mesh.faces[full + 1] = [j \in 1..(n % 3) |-> indices[3 * full + j]]

C1_Witness ==
    /\ Built
    /\ indices = <<0, 1, 0, 1>>
    /\ mesh.faces = <<<<0, 1, 0>>, <<1>>>>

C3_ChannelListsFollowVertices ==
    Decoded =>
        \A name \in FieldNames :
            /\ IsSubstring("texcoord", name) =>
                 /\ HasKey(_vertex_components.uv_map, name)
                 /\ LET list == DictGet(_vertex_components.uv_map, name)
                    IN /\ Len(list) = Len(vertices)
                       /\ \A v \in 1..Len(vertices) : list[v] = GetAttr(vertices[v], name)
            /\ IsSubstring("colour", name) =>
                 /\ HasKey(_vertex_components.color_map, name)
                 /\ LET list == DictGet(_vertex_components.color_map, name)
                    IN /\ Len(list) = Len(vertices)
                       /\ \A v \in 1..Len(vertices) : list[v] = GetAttr(vertices[v], name)

C3_Witness ==
    /\ Decoded
    /\ Len(vertices) = 2
    /\ HasKey(_vertex_components.color_map, "colour0")
    /\ HasKey(_vertex_components.uv_map, "texcoord0")
    /\ DictGet(_vertex_components.uv_map, "texcoord0") = <<<<0, 0>>, <<1, 0>>>>

\* C4: positions has one entry per vertex in input order; normals has one
\* entry per vertex in input order when the layout declares a normal and none
\* when it does not.
C4_PositionsAndNormals ==
    Decoded =>
        LET vc == _vertex_components
            declared == \E v \in 1..Len(vertices) : HasAttr(vertices[v], "normal")
        IN /\ Len(vc.positions) = Len(vertices)
           /\ \A v \in 1..Len(vertices) : vc.positions[v] = GetAttr(vertices[v], "position")
           /\ declared =>
                /\ Len(vc.normals) = Len(vertices)
                /\ \A v \in 1..Len(vertices) :
                     LET n == GetAttr(vertices[v], "normal")
                     IN vc.normals[v] = [x |-> n[1], y |-> n[2], z |-> n[3]]
           /\ ~declared => Len(vc.normals) = 0
           /\ Len(vc.normals) = Len(vc.positions) \/ Len(vc.normals) = 0

C4_Witness ==
    /\ Decoded
    /\ _vertex_components.positions = <<<<1, 0, 0>>, <<0, 0, 0>>>>
    /\ Len(_vertex_components.normals) = 2
    /\ _vertex_components.normals[1] # _vertex_components.normals[2]

\* The layout declares blend weights.
DeclaresBlendWeights == \E v \in 1..Len(vertices) : HasAttr(vertices[v], "blendweights")

\* All (vertex, slot) pairs, by ascending vertex and then ascending slot.
AllSlots == [k \in 1..(4 * Len(vertices)) |-> <<(k - 1) \div 4, (k - 1) % 4>>]

\* The reference group of a bone: the slots naming it, in that order, each
\* with its byte over 255.
ReferenceGroup(bone_index) ==
    LET names(slot) ==
            GetAttr(vertices[slot[1] + 1], "blendindices")[slot[2] + 1] = bone_index
        slots == SelectSeq(AllSlots, names)
    IN [k \in 1..Len(slots) |->
           <<slots[k][1],
             [num |-> GetAttr(vertices[slots[k][1] + 1], "blendweights")[slots[k][2] + 1],
              den |-> 255]>>]

RECURSIVE TotalLen(_, _)
TotalLen(lists, k) == IF k = 0 THEN 0 ELSE Len(lists[k]) + TotalLen(lists, k - 1)

\* C5: with blend weights declared, vertex_groups is the reference grouping:
\* its keys are the bone indices some slot names, each once; the list of bone b
\* holds one (v, byte / 255) entry per slot (v, i) with blendindices[i] = b, by
\* ascending v then i, zero weights kept, repeated bones of a vertex not merged,
\* nothing renormalised; 4 entries per vertex in all.
C5_VertexGroupsAreReferenceGrouping ==
    (Decoded /\ DeclaresBlendWeights) =>
        LET groups == _vertex_components.vertex_groups
            named == {GetAttr(vertices[AllSlots[k][1] + 1], "blendindices")[AllSlots[k][2] + 1] :
                         k \in 1..Len(AllSlots)}
        IN /\ {groups.keys[k] : k \in 1..Len(groups.keys)} = named
           /\ Len(groups.keys) = Cardinality(named)
           /\ \A b \in named : DictGet(groups, b) = ReferenceGroup(b)
           /\ TotalLen(groups.vals, Len(groups.vals)) = 4 * Len(vertices)

C5_Witness ==
    /\ Decoded
    /\ Len(vertices) = 2
    /\ HasKey(_vertex_components.vertex_groups, 1)
    /\ DictGet(_vertex_components.vertex_groups, 1) =
         <<<<0, [num |-> 255, den |-> 255]>>, <<0, [num |-> 255, den |-> 255]>>,
           <<1, [num |-> 128, den |-> 255]>>>>
    /\ HasKey(_vertex_components.vertex_groups, 0)
    /\ \E e \in 1..Len(DictGet(_vertex_components.vertex_groups, 0)) :
         DictGet(_vertex_components.vertex_groups, 0)[e] = <<1, [num |-> 0, den |-> 255]>>

\* C6 as stated: every field whose name contains "colour" or "color" is a key
\* of color_map.
C6_ColorSpellingCollected ==
    Decoded =>
        \A name \in FieldNames :
            (IsSubstring("colour", name) \/ IsSubstring("color", name)) =>
                HasKey(_vertex_components.color_map, name)

\* C6 as amended: the keys of color_map are exactly the field names that
\* contain "colour"; a field spelled "color0" is not collected.
C6_OnlyColourSpellingCollected ==
    Decoded =>
        /\ \A name \in FieldNames :
             HasKey(_vertex_components.color_map, name) <=> IsSubstring("colour", name)
        /\ \A k \in 1..Len(_vertex_components.color_map.keys) :
             _vertex_components.color_map.keys[k] \in FieldNames
        /\ ~HasKey(_vertex_components.color_map, "color0")

C6_Witness ==
    /\ Decoded
    /\ Len(vertices) = 2
    /\ "color0" \in FieldNames
    /\ _vertex_components.color_map.keys = <<"colour0">>

\* The blend arrays of a vertex do not pair up as 4 slots.
Unpaired(vertex) ==
    /\ HasAttr(vertex, "blendweights")
    /\ \/ ~HasAttr(vertex, "blendindices")
       \/ Len(GetAttr(vertex, "blendweights")) # 4
       \/ Len(GetAttr(vertex, "blendindices")) # 4

\* C7 as stated: a read of a buffer with unpaired blend arrays signals
\* MalformedBuffer and yields no VertexComponents.
C7_UnpairedSignalsMalformedBuffer ==
    (Len(read_log) > 0 /\ \E v \in 1..Len(vertices) : Unpaired(vertices[v])) =>
        /\ Last(read_log).raised = "MalformedBuffer"
        /\ _vertex_components = None

\* The first four slots of a vertex cannot all be read.
Short(vertex) ==
    /\ HasAttr(vertex, "blendweights")
    /\ \/ ~HasAttr(vertex, "blendindices")
       \/ Len(GetAttr(vertex, "blendweights")) < 4
       \/ Len(GetAttr(vertex, "blendindices")) < 4

\* C7 as amended: there is no MalformedBuffer. The first vertex whose first
\* four slots cannot all be read ends the decoding with no VertexComponents:
\* with AttributeError when blendweights is not empty and blendindices is
\* missing, with IndexError otherwise. When every vertex has at least 4
\* entries in both arrays the decoding returns, whatever the two lengths, and
\* the slots past the fourth are ignored.
C7_UnpairedRaisesIndexOrAttributeError ==
    Len(read_log) > 0 =>
        LET short == {v \in 1..Len(vertices) : Short(vertices[v])}
            first == CHOOSE v \in short : \A u \in short : v <= u
        IN IF short = {}
           THEN /\ Last(read_log).raised = "none"
                /\ _vertex_components = Last(read_log).value
                /\ TotalLen(_vertex_components.vertex_groups.vals,
                            Len(_vertex_components.vertex_groups.vals))
                     = IF DeclaresBlendWeights THEN 4 * Len(vertices) ELSE 0
           ELSE /\ Last(read_log).raised =
                     IF /\ Len(GetAttr(vertices[first], "blendweights")) > 0
                        /\ ~HasAttr(vertices[first], "blendindices")
                     THEN "AttributeError" ELSE "IndexError"
                /\ _vertex_components = None

C7_Witness ==
    /\ Len(read_log) > 0
    /\ Last(read_log).raised = "IndexError"
    /\ _vertex_components = None
    /\ Len(vertices) = 2
    /\ ~Short(vertices[1])
    /\ Len(GetAttr(vertices[2], "blendweights")) = 5
    /\ Len(GetAttr(vertices[2], "blendindices")) = 3

\* The keys of the decoded vertex_groups.
GroupKeys == _vertex_components.vertex_groups.keys

\* C8 as stated: one group per key in key order; a key in range of the bone
\* list takes that bone's name and every other key "EXTERNAL_BONE.<key>".
C8_OutOfRangeNamedExternal ==
    Built =>
        /\ Len(bpy_object.vertex_groups) = Len(GroupKeys)
        /\ \A k \in 1..Len(GroupKeys) :
             bpy_object.vertex_groups[k].name =
                IF GroupKeys[k] < Len(bones) THEN bones[GroupKeys[k] + 1]
                ELSE "EXTERNAL_BONE." \o ToString(GroupKeys[k])

\* C8 as amended: one group per key in key order; a key in range of the bone
\* list takes that bone's name; any other key takes "EXTERNAL_BONE.<key>" only
\* when it is in range of the geometry's bone_ids, and "UNKNOWN_BONE" when it is
\* in range of neither list.
C8_GroupNames ==
    Built =>
        /\ Len(bpy_object.vertex_groups) = Len(GroupKeys)
        /\ \A k \in 1..Len(GroupKeys) :
             bpy_object.vertex_groups[k].name =
                CASE GroupKeys[k] < Len(bones) -> bones[GroupKeys[k] + 1]
                  [] GroupKeys[k] >= Len(bones) /\ GroupKeys[k] < Len(bone_ids) ->
                        "EXTERNAL_BONE." \o ToString(GroupKeys[k])
                  [] OTHER -> "UNKNOWN_BONE"

C8_Witness ==
    /\ Built
    /\ GroupKeys = <<2, 0, 3>>
    /\ Len(bones) = 0
    /\ Len(bone_ids) = 1
    /\ bpy_object.vertex_groups[1].name = "UNKNOWN_BONE"
    /\ bpy_object.vertex_groups[2].name = "EXTERNAL_BONE.0"
    /\ bpy_object.vertex_groups[3].name = "UNKNOWN_BONE"

\* The sum of the bytes and the number of the entries of a group list that
\* belong to one vertex.
RECURSIVE ByteSum(_, _, _)
ByteSum(entries, vertex_index, e) ==
    IF e = 0 THEN 0
    ELSE ByteSum(entries, vertex_index, e - 1)
           + (IF entries[e][1] = vertex_index THEN entries[e][2].num ELSE 0)

EntriesOf(entries, vertex_index) ==
    Cardinality({e \in 1..Len(entries) : entries[e][1] = vertex_index})

\* C9: on the object create_bpy_object creates, the weight of vertex v in the
\* k-th group is the sum of the weights of the (v, w) entries stored under the
\* k-th key of vertex_groups, and v is in no group whose key has no entry for it.
C9_WeightsAccumulatePerBone ==
    Built =>
        /\ Len(bpy_object.vertex_groups) = Len(GroupKeys)
        /\ \A k \in 1..Len(GroupKeys) : \A v \in 0..(Len(vertices) - 1) :
             LET entries == _vertex_components.vertex_groups.vals[k]
                 weights == bpy_object.vertex_groups[k].weights
             IN IF EntriesOf(entries, v) = 0 THEN ~HasKey(weights, v)
                ELSE /\ HasKey(weights, v)
                     /\ DictGet(weights, v) =
                          [num |-> ByteSum(entries, v, Len(entries)), den |-> 255]

C9_Witness ==
    /\ Built
    /\ vertices = SampleRepeated
    /\ GroupKeys = <<5, 7>>
    /\ bpy_object.vertex_groups[1].name = "UNKNOWN_BONE"
    /\ bpy_object.vertex_groups[2].name = "UNKNOWN_BONE"
    /\ Len(_vertex_components.vertex_groups.vals[1]) = 2
    /\ bpy_object.vertex_groups[1].weights =
         [keys |-> <<0>>, vals |-> <<[num |-> 255, den |-> 255]>>]
    /\ bpy_object.vertex_groups[2].weights =
         [keys |-> <<0>>, vals |-> <<[num |-> 0, den |-> 255]>>]

\* The reads that returned, and the reads that raised.
ReturnedReads == {k \in 1..Len(read_log) : read_log[k].raised = "none"}

RaisedReads == {k \in 1..Len(read_log) : read_log[k].raised # "none"}

\* C10 as stated: with no assignment to the property, the buffer is decoded at
\* most once over any sequence of reads.
C10_DecodedAtMostOnce ==
    sets = 0 => decodes <= 1

\* C10 as amended: with no assignment to the property, a read that raises
\* leaves the cache empty, so every such read decodes again; once a read has
\* returned, no later read decodes, every later read returns that same value,
\* and the cached value stays that value.
C10_DecodedOnceItSucceeds ==
    sets = 0 =>
        /\ decodes = Cardinality(RaisedReads) + (IF ReturnedReads = {} THEN 0 ELSE 1)
        /\ \A j \in ReturnedReads : \A k \in 1..Len(read_log) :
             j < k => read_log[k] = read_log[j]
        /\ \A j \in ReturnedReads : _vertex_components = read_log[j].value
        /\ ReturnedReads = {} => _vertex_components = None

C10_Witness ==
    /\ sets = 0
    /\ builds > 0
    /\ Cardinality(ReturnedReads) > 6
    /\ decodes = 1

====
